---- MODULE Spec2Model ----
(***************************************************************************)
(* Campus Connect AI backend: the three revisions of api/index.js.         *)
(*   "groq"   src/api/index.js lines 1-155   (Groq / llama revision)       *)
(*   "gemini" src/api/index.js lines 157-396 (Gemini revision with news)   *)
(*   "first"  src/unnamed/part_000           (first Gemini revision)       *)
(* One process runs one revision.  Requests are served by a single-       *)
(* threaded event loop: a handler runs without interruption from one       *)
(* await that suspends on I/O to the next, and other requests may run      *)
(* while it is suspended.  Every action below is one such run.             *)
(*                                                                         *)
(* Text is a sequence of atoms.  The characters of a chat message are      *)
(* one-character atoms; the fixed pieces of the template literals, the     *)
(* formatted date and time, the pages of a document and the fields of a    *)
(* news article are each one atom.                                         *)
(***************************************************************************)
EXTENDS Integers, Sequences, FiniteSets, TLC

VARIABLES rev, NEWS_API_KEY, uploadedDocumentText, slot, lastWrite

vars == <<rev, NEWS_API_KEY, uploadedDocumentText, slot, lastWrite>>

\* ------------------------------------------------------------------------
\* Bounds and enumerated inputs
\* ------------------------------------------------------------------------

\* longest chat history a request carries
MaxHist == 3

\* requests that can be in flight at the same time
Slots == {"r1", "r2"}

Revisions == {"groq", "gemini", "first"}

\* JS null / undefined, and a present value
None == <<>>

Some(v) == <<v>>

\* JS truthiness of a string-or-null value: null and "" are falsy
Truthy(v) == v /= None /\ v[1] /= <<>>

\* ------------------------------------------------------------------------
\* Strings
\* ------------------------------------------------------------------------

\* String.prototype.toLowerCase / the regex flag i, on the letters in use
LowerChar(c) ==
  CASE c = "T" -> "t"
    [] c = "N" -> "n"
    [] OTHER -> c

toLowerCase(s) == [i \in 1..Len(s) |-> LowerChar(s[i])]

\* String.prototype.includes: k occurs in s as a contiguous substring
includes(s, k) ==
  \E i \in 1..(Len(s) - Len(k) + 1) : SubSeq(s, i, i + Len(k) - 1) = k

\* /date|time|today|now/i
GroqDateKeywords ==
  { <<"d","a","t","e">>, <<"t","i","m","e">>,
    <<"t","o","d","a","y">>, <<"n","o","w">> }

\* /news|headlines|current events/i
GroqNewsKeywords ==
  { <<"n","e","w","s">>,
    <<"h","e","a","d","l","i","n","e","s">>,
    <<"c","u","r","r","e","n","t"," ","e","v","e","n","t","s">> }

\* newsKeywords of the Gemini revision
newsKeywords ==
  { <<"n","e","w","s">>,
    <<"c","u","r","r","e","n","t"," ","e","v","e","n","t","s">>,
    <<"l","a","t","e","s","t"," ","h","e","a","d","l","i","n","e","s">>,
    <<"w","h","a","t","'","s"," ","h","a","p","p","e","n","i","n","g">>,
    <<"b","r","e","a","k","i","n","g"," ","n","e","w","s">>,
    <<"t","o","d","a","y","'","s"," ","n","e","w","s">> }

\* isDateQuery without the flag i: the test is case-sensitive
isDateQuery_caseSensitive(message) ==
  \E k \in GroqDateKeywords : includes(message, k)

\* /date|time|today|now/i.test(message)
isDateQuery(message) ==
  \E k \in GroqDateKeywords : includes(toLowerCase(message), k)

\* /news|headlines|current events/i.test(message)            (groq)
\* newsKeywords.some(k => userMessage.toLowerCase().includes(k)) (gemini)
isNewsQuery(r, message) ==
  CASE r = "groq"   -> \E k \in GroqNewsKeywords : includes(toLowerCase(message), k)
    [] r = "gemini" -> \E k \in newsKeywords : includes(toLowerCase(message), k)
    [] OTHER        -> FALSE

\* chat messages of the requests: req.body.message absent, "", and texts
Messages ==
  { None,
    Some(<<>>),
    Some(<<"h","i">>),
    Some(<<"T","i","m","e">>),
    Some(<<"c","u","r","r","e","n","t">>),
    Some(<<"N","e","w","s"," ","n","o","w">>) }

\* entries of req.body.chatHistory; sender "undefined" is a missing sender
Entry(i) ==
  CASE i % 3 = 1 -> [sender |-> "user",      content |-> <<"q">>]
    [] i % 3 = 2 -> [sender |-> "bot",       content |-> <<"a">>]
    [] OTHER     -> [sender |-> "undefined", content |-> <<"x">>]

\* req.body.chatHistory: no history, and a history of MaxHist entries
Histories == { [i \in 1..n |-> Entry(i)] : n \in {0, MaxHist} }

\* ------------------------------------------------------------------------
\* Date and time
\* ------------------------------------------------------------------------

\* instants new Date() can return
Clock == {"t1", "t2"}

\* now.toDateString()
toDateString(now) == IF now = "t1" THEN "Fri Nov 06 2026" ELSE "Sat Nov 07 2026"

\* now.toLocaleTimeString()
toLocaleTimeString(now) == IF now = "t1" THEN "9:15:00 AM" ELSE "11:40:10 PM"

\* now.toLocaleDateString('en-US', {year, month, day})
toLocaleDateString(now) == IF now = "t1" THEN "November 6, 2026" ELSE "November 7, 2026"

\* now.toLocaleTimeString('en-US', {hour12: false, ...})
toLocaleTimeString24(now) == IF now = "t1" THEN "09:15:00" ELSE "23:40:10"

\* ------------------------------------------------------------------------
\* News helper
\* ------------------------------------------------------------------------

\* what the news service can do with one call:
\*   fetch_throws     fetch(url) rejects
\*   http_error       the service answers with an error status and a JSON
\*                    error body that has no articles
\*   bad_json         the body cannot be parsed: res.json() rejects
\*   no_articles      a JSON body without an articles field
\*   empty_articles   articles: []
\*   articles         a list of articles
NewsOutcomes ==
  {"fetch_throws", "http_error", "bad_json", "no_articles", "empty_articles", "articles"}

\* data.articles of the "articles" outcome; the second article has neither
\* a source name nor a description
Articles ==
  << [title |-> "Exam dates announced", sourceName |-> Some("Campus Times"),
      description |-> Some("Finals start in December")],
     [title |-> "Library reopens", sourceName |-> None, description |-> None] >>

\* `${i + 1}` for the index of an article
IndexText(i) == CASE i = 1 -> "1" [] i = 2 -> "2" [] OTHER -> "3"

RECURSIVE GroqHeadlines(_, _)
\* data.articles.map((a, i) => `${i + 1}. ${a.title}`).join("\n"), from article i on
GroqHeadlines(as, i) ==
  IF i > Len(as) THEN <<>>
  ELSE (IF i > 1 THEN <<"\n">> ELSE <<>>)
       \o <<IndexText(i), ". ", as[i].title>>
       \o GroqHeadlines(as, i + 1)

RECURSIVE GeminiHeadlines(_, _)
\* the data.articles.forEach of the Gemini revision, from article i on
GeminiHeadlines(as, i) ==
  IF i > Len(as) THEN <<>>
  ELSE <<IndexText(i), ". ", as[i].title, " - ",
         (IF as[i].sourceName /= None THEN as[i].sourceName[1] ELSE "Unknown Source"),
         ".\n">>
       \o (IF as[i].description /= None
           THEN <<"   ", as[i].description[1], "\n">> ELSE <<>>)
       \o GeminiHeadlines(as, i + 1)

\* a returned string, or an exception that leaves the function
Return(t) == [threw |-> FALSE, text |-> t]

Throw == [threw |-> TRUE, text |-> <<>>]

\* fetchCurrentNews of the Groq revision: no try/catch around the network
GroqFetchCurrentNews(key, query, outcome) ==
  IF ~key THEN Return(<<"News API key not configured.">>)
  ELSE CASE outcome \in {"fetch_throws", "bad_json"} -> Throw
         [] outcome \in {"http_error", "no_articles"} -> Return(<<"No news found.">>)
         [] outcome = "empty_articles" -> Return(GroqHeadlines(<<>>, 1))
         [] OTHER -> Return(GroqHeadlines(Articles, 1))

\* fetchCurrentNews of the Gemini revision: every failure becomes a text
GeminiFetchCurrentNews(key, query, outcome) ==
  IF ~key
  THEN Return(<<"I cannot access real-time news updates at the moment because my news API key is not configured.">>)
  ELSE CASE outcome = "http_error" ->
              Return(<<"I'm having trouble fetching current news from the news API right now. Please try again later.">>)
         [] outcome \in {"fetch_throws", "bad_json"} ->
              Return(<<"I encountered an error while trying to get the latest news. Please check the backend logs for details.">>)
         [] outcome \in {"no_articles", "empty_articles"} ->
              Return(<<"I couldn't find any recent news related to \"">> \o query \o <<"\".">>)
         [] OTHER ->
              Return(<<"Here are some recent news headlines:\n">> \o GeminiHeadlines(Articles, 1))

fetchCurrentNews(r, key, query, outcome) ==
  IF r = "groq" THEN GroqFetchCurrentNews(key, query, outcome)
  ELSE GeminiFetchCurrentNews(key, query, outcome)

\* ------------------------------------------------------------------------
\* Prompt assembly of /api/chat
\* ------------------------------------------------------------------------

\* DateContext with the Groq revision adding the date to every message
DateContext_always(r, message, now) ==
  CASE r = "groq" ->
         <<"Current date: ", toDateString(now), ", time: ", toLocaleTimeString(now), ". ">>
    [] r = "gemini" ->
         <<"Current date: ", toLocaleDateString(now), ". Current time: ", toLocaleTimeString24(now), ". ">>
    [] OTHER -> <<>>

\* context after the date step of the handler, before any news
DateContext(r, message, now) ==
  CASE r = "groq" ->
         IF isDateQuery(message)
         THEN <<"Current date: ", toDateString(now), ", time: ", toLocaleTimeString(now), ". ">>
         ELSE <<>>
    [] r = "gemini" ->
         <<"Current date: ", toLocaleDateString(now), ". Current time: ", toLocaleTimeString24(now), ". ">>
    [] OTHER -> <<>>

\* context += the news block
NewsContext(r, news) ==
  IF r = "groq" THEN <<"Recent news:\n">> \o news \o <<"\n\n">>
  ELSE <<"Here is some recent news context: ">> \o news \o <<"\n\n">>

\* m.sender === 'user' ? 'user' : 'assistant' (groq) / 'model' (gemini)
RoleOf(r, sender) ==
  IF sender = "user" THEN "user"
  ELSE IF r = "groq" THEN "assistant" ELSE "model"

\* historyFor mapping the history back to front
historyFor_reversed(r, chatHistory) ==
  [i \in 1..Len(chatHistory) |->
     [role |-> RoleOf(r, chatHistory[Len(chatHistory) + 1 - i].sender),
      parts |-> <<chatHistory[Len(chatHistory) + 1 - i].content>>]]

\* chatHistory.map(...): one role-tagged entry per history entry, in order
historyFor(r, chatHistory) ==
  [i \in 1..Len(chatHistory) |->
     [role |-> RoleOf(r, chatHistory[i].sender), parts |-> <<chatHistory[i].content>>]]

SystemPrompt ==
  <<"You are Campus Connect AI, a helpful academic assistant. Respond clearly and concisely using Markdown.">>

\* the document block, as each revision words it
DocumentBlock(r, doc) ==
  IF r = "groq" THEN <<"Document context:\n">> \o doc \o <<"\n\n">>
  ELSE <<"Context from document:\n">> \o doc \o <<"\n\n">>

\* GroqMessages testing the store against null instead of for truthiness:
\* a store holding "" gets a document block with no text in it
GroqMessages_notNull(context, message, chatHistory, store) ==
  LET ctx == IF store /= None THEN context \o DocumentBlock("groq", store[1]) ELSE context
  IN  <<[role |-> "system", parts |-> <<SystemPrompt>>]>>
      \o historyFor("groq", chatHistory)
      \o <<[role |-> "user", parts |-> <<ctx \o message>>]>>

\* messages of the Groq revision: the document block is appended to context
\* and context is put in front of the message in the last entry
GroqMessages(context, message, chatHistory, store) ==
  LET ctx == IF Truthy(store) THEN context \o DocumentBlock("groq", store[1]) ELSE context
  IN  <<[role |-> "system", parts |-> <<SystemPrompt>>]>>
      \o historyFor("groq", chatHistory)
      \o <<[role |-> "user", parts |-> <<ctx \o message>>]>>

\* GeminiContents with push in place of unshift: the document part lands
\* after the query part
GeminiContents_push(context, userMessage, chatHistory, store) ==
  LET finalPromptParts == <<context \o <<"User's query: ">> \o userMessage>>
      withDoc == IF Truthy(store)
                 THEN finalPromptParts \o <<DocumentBlock("gemini", store[1])>>
                 ELSE finalPromptParts
  IN  historyFor("gemini", chatHistory) \o <<[role |-> "user", parts |-> withDoc]>>

\* contents of the Gemini revision: finalPromptParts holds the query part,
\* and the document part is unshifted in front of it
GeminiContents(context, userMessage, chatHistory, store) ==
  LET finalPromptParts == <<context \o <<"User's query: ">> \o userMessage>>
      withDoc == IF Truthy(store)
                 THEN <<DocumentBlock("gemini", store[1])>> \o finalPromptParts
                 ELSE finalPromptParts
  IN  historyFor("gemini", chatHistory) \o <<[role |-> "user", parts |-> withDoc]>>

\* contents of the first revision: no context, the message is its own part
FirstContents(userMessage, chatHistory, store) ==
  LET finalPromptParts == <<userMessage>>
      withDoc == IF Truthy(store)
                 THEN <<DocumentBlock("first", store[1])>> \o finalPromptParts
                 ELSE finalPromptParts
  IN  historyFor("first", chatHistory) \o <<[role |-> "user", parts |-> withDoc]>>

\* the sequence handed to the Model Client
AssemblePrompt(r, context, message, chatHistory, store) ==
  CASE r = "groq"   -> GroqMessages(context, message, chatHistory, store)
    [] r = "gemini" -> GeminiContents(context, message, chatHistory, store)
    [] OTHER        -> FirstContents(message, chatHistory, store)

\* ------------------------------------------------------------------------
\* Document loading of /api/upload
\* ------------------------------------------------------------------------

PDF == "application/pdf"

TXT == "text/plain"

DOCX == "application/vnd.openxmlformats-officedocument.wordprocessingml.document"

\* a type whose name includes 'wordprocessingml' and is not DOCX
DOTX == "application/vnd.openxmlformats-officedocument.wordprocessingml.template"

PNG == "image/png"

MimeTypes == {PDF, TXT, DOCX, DOTX, PNG}

\* contents of an uploaded file, by what the loader makes of it:
\*   corrupt    loader.load() rejects
\*   blank      load() resolves to no document at all
\*   emptytext  load() resolves to one document whose pageContent is ""
\*   A, B       two files with readable pages
Buffers == {"corrupt", "blank", "emptytext", "A", "B"}

\* req.file: absent, or a file with its type and contents
Files == {None} \cup {Some([mimetype |-> m, buffer |-> b]) : m \in MimeTypes, b \in Buffers}

\* the type test of each revision: TRUE when a loader is created
SupportedMime(r, mimetype) ==
  CASE r = "groq"   -> mimetype = PDF \/ mimetype = TXT \/ mimetype \in {DOCX, DOTX}
    [] r = "gemini" -> mimetype = PDF \/ mimetype = TXT \/ mimetype = DOCX
    [] OTHER        -> mimetype = PDF

\* await loader.load(): the pageContent of every document, or a rejection
Load(buffer) ==
  CASE buffer = "corrupt"   -> [threw |-> TRUE,  docs |-> <<>>]
    [] buffer = "blank"     -> [threw |-> FALSE, docs |-> <<>>]
    [] buffer = "emptytext" -> [threw |-> FALSE, docs |-> << <<>> >>]
    [] buffer = "A"         -> [threw |-> FALSE, docs |-> << <<"A page 1">>, <<"A page 2">> >>]
    [] OTHER                -> [threw |-> FALSE, docs |-> << <<"B page 1">> >>]

RECURSIVE splitDocuments(_)
\* RecursiveCharacterTextSplitter on pages shorter than chunkSize: every
\* page with text is one chunk, a page without text gives no chunk
splitDocuments(docs) ==
  IF docs = <<>> THEN <<>>
  ELSE (IF Head(docs) = <<>> THEN <<>> ELSE <<Head(docs)>>) \o splitDocuments(Tail(docs))

RECURSIVE join(_, _)
\* Array.prototype.join
join(chunks, sep) ==
  IF chunks = <<>> THEN <<>>
  ELSE IF Len(chunks) = 1 THEN chunks[1]
  ELSE chunks[1] \o sep \o join(Tail(chunks), sep)

\* chunks.map(d => d.pageContent).join("\n\n")
DocumentText(chunks) == join(chunks, <<"\n\n">>)

\* ------------------------------------------------------------------------
\* Requests
\* ------------------------------------------------------------------------

\* a free slot, and the locals of a request that has just arrived.
\* Besides the locals of the handlers (message, chatHistory, context, the
\* prompt, the file's buffer, docs) a slot records what happened to the
\* request: the responses sent, how the news call and the model call went
\* (news, model), how far the upload got (upload), the value the chat read
\* from the store (docAtRead) and whose write that value was (readAt).
Idle ==
  [kind |-> "idle", pc |-> "idle", message |-> None, chatHistory |-> <<>>,
   context |-> <<>>, prompt |-> <<>>, buffer |-> "", docs |-> <<>>,
   responses |-> <<>>, news |-> "none", model |-> "none", upload |-> "none",
   docAtRead |-> None, readAt |-> "unread"]

Init ==
  /\ rev \in Revisions
  /\ NEWS_API_KEY \in BOOLEAN
  /\ uploadedDocumentText = None
  /\ slot = [s \in Slots |-> Idle]
  /\ lastWrite = "none"

\* res.status(code).json(...) / res.json(...) as the handler's last statement:
\* one more response on the slot; the handler returns and its locals are gone
Respond(r, code) ==
  [Idle EXCEPT !.kind = r.kind, !.pc = "done", !.message = r.message,
               !.buffer = r.buffer, !.news = r.news, !.model = r.model,
               !.upload = r.upload,
               !.responses = Append(r.responses, code)]

\* the rest of the chat handler once context is complete: read the store,
\* build the prompt, call the Model Client and suspend on it
CallModel(r, context) ==
  [r EXCEPT !.pc = "model", !.context = context, !.model = "pending",
            !.docAtRead = uploadedDocumentText, !.readAt = lastWrite,
            !.prompt = AssemblePrompt(rev, context, r.message[1], r.chatHistory,
                                      uploadedDocumentText)]

\* ChatRequest rejecting only a missing message, not an empty one
ChatRequest_onlyMissing(s, message, chatHistory, now) ==
  /\ slot[s].pc = "idle"
  /\ LET r0 == [Idle EXCEPT !.kind = "chat", !.message = message,
                            !.chatHistory = chatHistory]
     IN  slot' = [slot EXCEPT ![s] =
           IF message = None THEN Respond(r0, 400)
           ELSE IF ~isNewsQuery(rev, message[1])
                THEN CallModel(r0, DateContext(rev, message[1], now))
           ELSE IF ~NEWS_API_KEY
                THEN CallModel([r0 EXCEPT !.news = "no_key"],
                               DateContext(rev, message[1], now) \o NewsContext(rev,
                                 fetchCurrentNews(rev, FALSE, message[1], "no_key").text))
                ELSE [r0 EXCEPT !.pc = "news", !.news = "pending",
                                !.context = DateContext(rev, message[1], now)]]
  /\ UNCHANGED <<rev, NEWS_API_KEY, uploadedDocumentText, lastWrite>>

\* POST /api/chat up to its first suspension
ChatRequest(s, message, chatHistory, now) ==
  /\ slot[s].pc = "idle"
  /\ LET r0 == [Idle EXCEPT !.kind = "chat", !.message = message,
                            !.chatHistory = chatHistory]
         context == DateContext(rev, message[1], now)
     IN  slot' = [slot EXCEPT ![s] =
           IF ~Truthy(message) THEN Respond(r0, 400)
           ELSE IF ~isNewsQuery(rev, message[1]) THEN CallModel(r0, context)
           ELSE IF ~NEWS_API_KEY
                THEN CallModel([r0 EXCEPT !.news = "no_key"],
                               context \o NewsContext(rev,
                                 fetchCurrentNews(rev, FALSE, message[1], "no_key").text))
                ELSE [r0 EXCEPT !.pc = "news", !.context = context, !.news = "pending"]]
  /\ UNCHANGED <<rev, NEWS_API_KEY, uploadedDocumentText, lastWrite>>

\* fetchCurrentNews settles and the chat handler goes on
NewsReturns(s, outcome) ==
  /\ slot[s].pc = "news"
  /\ LET r == [slot[s] EXCEPT !.news = outcome]
         news == fetchCurrentNews(rev, TRUE, r.message[1], outcome)
     IN  slot' = [slot EXCEPT ![s] =
           IF news.threw THEN Respond(r, 500)
           ELSE CallModel(r, r.context \o NewsContext(rev, news.text))]
  /\ UNCHANGED <<rev, NEWS_API_KEY, uploadedDocumentText, lastWrite>>

\* ModelReturns with a catch block that answers as if text had been generated
ModelReturns_swallow(s, ok) ==
  /\ slot[s].pc = "model"
  /\ slot' = [slot EXCEPT ![s] =
       IF ok THEN Respond([@ EXCEPT !.model = "ok"], 200)
       ELSE Respond([@ EXCEPT !.model = "failed"], 200)]
  /\ UNCHANGED <<rev, NEWS_API_KEY, uploadedDocumentText, lastWrite>>

\* the Model Client settles: the generated text, or the catch block
ModelReturns(s, ok) ==
  /\ slot[s].pc = "model"
  /\ slot' = [slot EXCEPT ![s] =
       IF ok THEN Respond([@ EXCEPT !.model = "ok"], 200)
       ELSE Respond([@ EXCEPT !.model = "failed"], 500)]
  /\ UNCHANGED <<rev, NEWS_API_KEY, uploadedDocumentText, lastWrite>>

\* POST /api/upload up to await loader.load()
UploadRequest(s, file) ==
  /\ slot[s].pc = "idle"
  /\ LET r0 == [Idle EXCEPT !.kind = "upload"]
     IN  slot' = [slot EXCEPT ![s] =
           IF file = None THEN Respond([r0 EXCEPT !.upload = "no_file"], 400)
           ELSE IF ~SupportedMime(rev, file[1].mimetype)
                THEN Respond([r0 EXCEPT !.upload = "unsupported",
                                        !.buffer = file[1].buffer], 400)
           ELSE [r0 EXCEPT !.pc = "load", !.buffer = file[1].buffer,
                           !.upload = "loading"]]
  /\ UNCHANGED <<rev, NEWS_API_KEY, uploadedDocumentText, lastWrite>>

\* a rejection inside the Groq upload handler, which has no try/catch: the
\* promise of the async handler rejects with nobody to handle it.  Either
\* the request is left without a response, or the runtime ends the process
\* and the next request finds a fresh one.
Unhandled(s, why, exit) ==
  IF exit
  THEN /\ slot' = [t \in Slots |-> Idle]
       /\ uploadedDocumentText' = None
       /\ lastWrite' = "none"
  ELSE /\ slot' = [slot EXCEPT ![s].pc = "unhandled", ![s].upload = why]
       /\ UNCHANGED <<uploadedDocumentText, lastWrite>>

\* loader.load() settles
LoaderReturns(s, exit) ==
  /\ slot[s].pc = "load"
  /\ LET loaded == Load(slot[s].buffer)
     IN  IF loaded.threw /\ rev = "groq" THEN Unhandled(s, "load_rejected", exit)
         ELSE /\ ~exit
              /\ slot' = [slot EXCEPT ![s] =
                   IF loaded.threw THEN Respond([@ EXCEPT !.upload = "load_rejected"], 500)
                   ELSE IF rev /= "groq" /\ Len(loaded.docs) = 0
                        THEN Respond([@ EXCEPT !.upload = "loaded"], 400)
                   ELSE [@ EXCEPT !.pc = "split", !.docs = loaded.docs,
                                  !.upload = "loaded"]]
              /\ UNCHANGED <<uploadedDocumentText, lastWrite>>
  /\ UNCHANGED <<rev, NEWS_API_KEY>>

\* SplitterReturns appending the new text to the resident one
SplitterReturns_append(s, ok, exit) ==
  /\ slot[s].pc = "split"
  /\ IF ~ok /\ rev = "groq" THEN Unhandled(s, "split_rejected", exit)
     ELSE /\ ~exit
          /\ IF ok
             THEN /\ uploadedDocumentText' =
                       Some((IF uploadedDocumentText = None THEN <<>> ELSE uploadedDocumentText[1])
                            \o DocumentText(splitDocuments(slot[s].docs)))
                  /\ lastWrite' = slot[s].buffer
                  /\ slot' = [slot EXCEPT ![s] = Respond([@ EXCEPT !.upload = "stored"], 200)]
             ELSE /\ slot' = [slot EXCEPT ![s] =
                       Respond([@ EXCEPT !.upload = "split_rejected"], 500)]
                  /\ UNCHANGED <<uploadedDocumentText, lastWrite>>
  /\ UNCHANGED <<rev, NEWS_API_KEY>>

\* splitDocuments settles: the store is written and the upload answered
SplitterReturns(s, ok, exit) ==
  /\ slot[s].pc = "split"
  /\ IF ~ok /\ rev = "groq" THEN Unhandled(s, "split_rejected", exit)
     ELSE /\ ~exit
          /\ IF ok
             THEN /\ uploadedDocumentText' = Some(DocumentText(splitDocuments(slot[s].docs)))
                  /\ lastWrite' = slot[s].buffer
                  /\ slot' = [slot EXCEPT ![s] = Respond([@ EXCEPT !.upload = "stored"], 200)]
             ELSE /\ slot' = [slot EXCEPT ![s] =
                       Respond([@ EXCEPT !.upload = "split_rejected"], 500)]
                  /\ UNCHANGED <<uploadedDocumentText, lastWrite>>
  /\ UNCHANGED <<rev, NEWS_API_KEY>>

\* ClearDocumentContext that answers without resetting the store
ClearDocumentContext_keep(s) ==
  /\ slot[s].pc = "idle"
  /\ UNCHANGED uploadedDocumentText
  /\ lastWrite' = "clear"
  /\ slot' = [slot EXCEPT ![s] = Respond([Idle EXCEPT !.kind = "clear"], 200)]
  /\ UNCHANGED <<rev, NEWS_API_KEY>>

\* POST /api/clear-document-context
ClearDocumentContext(s) ==
  /\ slot[s].pc = "idle"
  /\ uploadedDocumentText' = None
  /\ lastWrite' = "clear"
  /\ slot' = [slot EXCEPT ![s] = Respond([Idle EXCEPT !.kind = "clear"], 200)]
  /\ UNCHANGED <<rev, NEWS_API_KEY>>

\* the exchange is over and its slot is free again
Finish(s) ==
  /\ slot[s].pc \in {"done", "unhandled"}
  /\ slot' = [slot EXCEPT ![s] = Idle]
  /\ UNCHANGED <<rev, NEWS_API_KEY, uploadedDocumentText, lastWrite>>

Next ==
  \/ \E s \in Slots, m \in Messages, h \in Histories, now \in Clock : ChatRequest(s, m, h, now)
  \/ \E s \in Slots, o \in NewsOutcomes : NewsReturns(s, o)
  \/ \E s \in Slots, ok \in BOOLEAN : ModelReturns(s, ok)
  \/ \E s \in Slots, f \in Files : UploadRequest(s, f)
  \/ \E s \in Slots, exit \in BOOLEAN : LoaderReturns(s, exit)
  \/ \E s \in Slots, ok \in BOOLEAN, exit \in BOOLEAN : SplitterReturns(s, ok, exit)
  \/ \E s \in Slots : ClearDocumentContext(s)
  \/ \E s \in Slots : Finish(s)

Spec == Init /\ [][Next]_vars

TypeOK ==
  /\ rev \in Revisions
  /\ NEWS_API_KEY \in BOOLEAN
  /\ lastWrite \in {"none", "clear"} \cup Buffers
  /\ \A s \in Slots : slot[s].kind \in {"idle", "chat", "upload", "clear"}

\* ------------------------------------------------------------------------
\* Reading a prompt
\* ------------------------------------------------------------------------

\* chat requests that have handed a prompt to the Model Client
Prompted == {s \in Slots : slot[s].kind = "chat" /\ slot[s].pc = "model"}

RECURSIVE Flatten(_)
\* the texts of the parts of one entry, one after the other
Flatten(parts) == IF parts = <<>> THEN <<>> ELSE Head(parts) \o Flatten(Tail(parts))

\* text of entry i of prompt p
EntryText(p, i) == Flatten(p[i].parts)

\* the final user turn, and the last part of it
FinalTurn(p) == p[Len(p)]

FinalUserPart(p) == FinalTurn(p).parts[Len(FinalTurn(p).parts)]

\* positions of the history parts: between the system entry (groq only)
\* and the final user turn
HistoryPositions(p) == IF rev = "groq" THEN 2..(Len(p) - 1) ELSE 1..(Len(p) - 1)

\* the positions at which block occurs in text
Occurrences(text, block) ==
  {i \in 1..(Len(text) - Len(block) + 1) : SubSeq(text, i, i + Len(block) - 1) = block}

\* the label that opens a document block, and the block for a document
DocumentLabels == {"Document context:\n", "Context from document:\n"}

ExpectedDocumentBlock(doc) ==
  <<(IF rev = "groq" THEN "Document context:\n" ELSE "Context from document:\n")>>
  \o doc \o <<"\n\n">>

\* text carries a document label somewhere
MentionsDocument(text) == \E i \in 1..Len(text) : text[i] \in DocumentLabels

\* text ends with message
EndsWith(text, message) ==
  /\ Len(text) >= Len(message)
  /\ SubSeq(text, Len(text) - Len(message) + 1, Len(text)) = message

\* ------------------------------------------------------------------------
\* C1
\* ------------------------------------------------------------------------

StatedDateKeywords == GroqDateKeywords \cup { <<"c","u","r","r","e","n","t">> }

StatedNewsKeywords ==
  GroqNewsKeywords \cup newsKeywords \cup { <<"b","r","e","a","k","i","n","g">> }

\* message has no keyword of either kind, under any of the lists
KeywordFree(message) ==
  \A k \in StatedDateKeywords \cup StatedNewsKeywords : ~includes(toLowerCase(message), k)

\* atoms a formatted date can be
DateStrings == {toDateString(t) : t \in Clock} \cup {toLocaleDateString(t) : t \in Clock}

NewsFailures == {"fetch_throws", "bad_json", "http_error"}

\* texts the revisions put in place of the news block
FallbackTexts ==
  { "No news found.",
    "I'm having trouble fetching current news from the news API right now. Please try again later.",
    "I encountered an error while trying to get the latest news. Please check the backend logs for details." }

\* C3: a chat whose news call failed still reaches the Model Client, with a
\* fallback text in the final user part, and the failure of the news call is
\* not answered with 500.
C3_NewsFailureIsSwallowed ==
  \A s \in Slots :
    (slot[s].kind = "chat" /\ slot[s].news \in NewsFailures) =>
      /\ slot[s].model /= "none"
      /\ slot[s].pc = "model" =>
           \E i \in 1..Len(FinalUserPart(slot[s].prompt)) :
             FinalUserPart(slot[s].prompt)[i] \in FallbackTexts

\* ------------------------------------------------------------------------
\* C4
\* ------------------------------------------------------------------------

\* uploads whose handler has run to its end
EndedUploads == {s \in Slots : slot[s].kind = "upload" /\ slot[s].pc \in {"done", "unhandled"}}

\* the text the loader and splitter extract from a file is empty
ExtractsNothing(buffer) == buffer \in {"blank", "emptytext"}

\* C4: an unsupported type is answered with 400, a file with no text with
\* 400, a loader or splitter failure with 500, each with exactly that one
\* response.
C4_UploadErrorsAnswered ==
  \A s \in EndedUploads :
    /\ slot[s].upload = "unsupported" => slot[s].responses = <<400>>
    /\ slot[s].upload \in {"load_rejected", "split_rejected"} => slot[s].responses = <<500>>
    /\ (slot[s].upload \in {"loaded", "stored"} /\ ExtractsNothing(slot[s].buffer)) =>
         slot[s].responses = <<400>>

\* ------------------------------------------------------------------------
\* C5
\* ------------------------------------------------------------------------

\* the complete text of one upload of a file, page after page
CompleteText(buffer) ==
  CASE buffer = "A" -> <<"A page 1", "\n\n", "A page 2">>
    [] buffer = "B" -> <<"B page 1">>
    [] OTHER        -> <<>>

\* C5: the store is empty, or it holds the complete text of exactly one
\* upload, the one whose store write happened last.
C5_OneDocumentResident ==
  \/ uploadedDocumentText = None
  \/ /\ lastWrite \in Buffers
     /\ uploadedDocumentText = Some(CompleteText(lastWrite))

\* the upload of B wrote the store while the upload of A, already loaded,
\* is still waiting for its splitter
C5_Witness ==
  /\ lastWrite = "B"
  /\ uploadedDocumentText = Some(CompleteText("B"))
  /\ \E s \in Slots : slot[s].pc = "split" /\ slot[s].buffer = "A"

\* ------------------------------------------------------------------------
\* C6
\* ------------------------------------------------------------------------

\* C6: every step that serves a clear request answers it with one success
\* response and leaves the store empty, whatever the store held; and every
\* chat that reads the store while the last write to it is a clear hands the
\* Model Client a prompt without document context.
C6_ClearEmptiesStore ==
  [][ \A s \in Slots :
        /\ (slot[s].pc = "idle" /\ slot'[s].kind = "clear") =>
             /\ uploadedDocumentText' = None
             /\ slot'[s].responses = <<200>>
        /\ (slot[s].pc /= "model" /\ slot'[s].pc = "model" /\ lastWrite = "clear") =>
             \A i \in 1..Len(slot'[s].prompt) :
               ~MentionsDocument(EntryText(slot'[s].prompt, i)) ]_vars

\* the upload of A was stored, a clear was served after it, and a chat
\* then read the store the clear had emptied
C6_Witness ==
  \E s \in Prompted, t \in Slots :
    /\ slot[s].readAt = "clear"
    /\ lastWrite = "clear"
    /\ slot[t].kind = "upload" /\ slot[t].upload = "stored" /\ slot[t].buffer = "A"

\* ------------------------------------------------------------------------
\* C7
\* ------------------------------------------------------------------------

\* C7: the history parts of the prompt are as many as the history entries,
\* in the same order, each with the content of its entry, with the user role
\* for sender "user" and the assistant/model role for every other sender.
C7_HistoryOrderAndRoles ==
  \A s \in Prompted :
    LET p    == slot[s].prompt
        h    == slot[s].chatHistory
        off  == IF rev = "groq" THEN 1 ELSE 0
        other == IF rev = "groq" THEN "assistant" ELSE "model"
    IN  /\ Len(p) = Len(h) + off + 1
        /\ \A i \in 1..Len(h) :
             /\ p[i + off].parts = <<h[i].content>>
             /\ p[i + off].role = (IF h[i].sender = "user" THEN "user" ELSE other)

\* a history with a user entry, an unrecognised sender and a missing sender
\* was converted
C7_Witness ==
  \E s \in Prompted :
    /\ Len(slot[s].chatHistory) >= 3
    /\ {slot[s].chatHistory[i].sender : i \in 1..3} = {"user", "bot", "undefined"}

\* ------------------------------------------------------------------------
\* C8
\* ------------------------------------------------------------------------

\* message contains one of the keywords, letter case ignored
ContainsAny(message, keywords) == \E k \in keywords : includes(toLowerCase(message), k)

\* part is a date/time fragment followed, at some distance, by message
DateBeforeMessage(part, message) ==
  /\ EndsWith(part, message)
  /\ \E i \in 1..(Len(part) - Len(message) - 1) :
       /\ part[i] = "Current date: "
       /\ part[i + 1] \in DateStrings

\* C8 as stated (Groq and Gemini revisions): a message containing "date",
\* "time", "today", "now" or "current" gets a date/time fragment in front
\* of it in the final user part.
C8_StatedKeywordsGetDate ==
  \A s \in Prompted :
    (rev \in {"groq", "gemini"} /\ ContainsAny(slot[s].message[1], StatedDateKeywords)) =>
      DateBeforeMessage(FinalUserPart(slot[s].prompt), slot[s].message[1])

\* C8 amended (Groq and Gemini revisions): a message containing "date",
\* "time", "today" or "now", letter case ignored, gets a non-empty date/time
\* fragment in front of it in the final user part.
C8_DateKeywordsGetDate ==
  \A s \in Prompted :
    (rev \in {"groq", "gemini"} /\ ContainsAny(slot[s].message[1], GroqDateKeywords)) =>
      DateBeforeMessage(FinalUserPart(slot[s].prompt), slot[s].message[1])

\* the Groq revision assembled a message that has a datetime keyword in
\* capitals
C8_Witness ==
  \E s \in Prompted :
    /\ rev = "groq"
    /\ slot[s].message = Some(<<"T","i","m","e">>)

\* ------------------------------------------------------------------------
\* C9
\* ------------------------------------------------------------------------

\* C9: a chat whose model call failed is answered with exactly one
\* response, a 500.
C9_ModelFailureIs500 ==
  \A s \in Slots :
    (slot[s].kind = "chat" /\ slot[s].model = "failed") =>
      /\ slot[s].pc = "done"
      /\ slot[s].responses = <<500>>

\* a model call has failed
C9_Witness == \E s \in Slots : slot[s].kind = "chat" /\ slot[s].model = "failed"

\* ------------------------------------------------------------------------
\* C10
\* ------------------------------------------------------------------------

\* C10: a chat without a message, or with an empty one, is answered with
\* one 400 and nothing else happens for it: no news call, no read of the
\* store, no prompt, no model call.
C10_EmptyMessageRejected ==
  \A s \in Slots :
    (slot[s].kind = "chat" /\ ~Truthy(slot[s].message)) =>
      /\ slot[s].pc = "done"
      /\ slot[s].responses = <<400>>
      /\ slot[s].news = "none"
      /\ slot[s].model = "none"
      /\ slot[s].readAt = "unread"
      /\ slot[s].prompt = <<>>

\* an empty message was rejected while the store held a document
C10_Witness ==
  \E s \in Slots :
    /\ slot[s].kind = "chat"
    /\ slot[s].message = Some(<<>>)
    /\ slot[s].responses = <<400>>
    /\ Truthy(uploadedDocumentText)

\* ------------------------------------------------------------------------
\* C11
\* ------------------------------------------------------------------------

\* in this step the upload in slot s comes to its end: it arrives and is
\* rejected at once, or it leaves one of its awaits for good
UploadEnds(s) ==
  \/ slot[s].pc = "idle" /\ slot'[s].kind = "upload" /\ slot'[s].pc = "done"
  \/ slot[s].pc \in {"load", "split"} /\ slot'[s].pc \notin {"load", "split"}

\* C11: a step that ends an upload without the success response leaves the
\* store as it was, and a step that ends an upload with the success
\* response leaves a non-empty document text in the store.
C11_OnlySuccessWritesStore ==
  [][ \A s \in Slots :
        UploadEnds(s) =>
          IF slot'[s].responses = <<200>>
          THEN Truthy(uploadedDocumentText')
          ELSE uploadedDocumentText' = uploadedDocumentText ]_vars

\* ------------------------------------------------------------------------
\* C12
\* ------------------------------------------------------------------------

\* in this step the chat in slot s reads the store and hands its prompt to
\* the Model Client
ChatReadsStore(s) == slot[s].pc /= "model" /\ slot'[s].pc = "model"

\* C12: the document context of a prompt is the value the store holds at
\* the one instant the chat reads it, whatever other requests did before
\* and while the chat was suspended.  If the store holds text at that
\* instant, the final user turn carries the document block of exactly that
\* text, once, and the text is the complete text of the last upload stored;
\* otherwise no entry of the prompt carries a document block, not even one
\* with empty text.
C12_DocumentReadAtOneInstant ==
  [][ \A s \in Slots :
        ChatReadsStore(s) =>
          LET p == slot'[s].prompt
          IN  IF Truthy(uploadedDocumentText)
              THEN /\ lastWrite \in Buffers
                   /\ uploadedDocumentText[1] = CompleteText(lastWrite)
                   /\ Cardinality(Occurrences(EntryText(p, Len(p)),
                                   ExpectedDocumentBlock(uploadedDocumentText[1]))) = 1
                   /\ Cardinality({i \in 1..Len(EntryText(p, Len(p))) :
                                     EntryText(p, Len(p))[i] \in DocumentLabels}) = 1
                   /\ \A i \in 1..(Len(p) - 1) : ~MentionsDocument(EntryText(p, i))
              ELSE \A i \in 1..Len(p) : ~MentionsDocument(EntryText(p, i)) ]_vars

\* a chat that was suspended on its news call read the text of A, and the
\* other slot still shows the success response of the upload that stored it
C12_Witness ==
  \E s \in Prompted, t \in Slots :
    /\ slot[s].news \in NewsOutcomes
    /\ slot[s].readAt = "A"
    /\ slot[s].docAtRead = Some(CompleteText("A"))
    /\ slot[t].kind = "upload" /\ slot[t].upload = "stored" /\ slot[t].buffer = "A"

\* a chat read a store that holds the empty string
C12_WitnessEmptyText ==
  \E s \in Prompted : slot[s].docAtRead = Some(<<>>)

====
